---- MODULE Spec2Model ----
(***************************************************************************)
(* K-fold partitioner of preprocessy (resampling/_kfold.py): construction  *)
(* of a KFold object, the lazy split generator and the fold-mask generator *)
(* it drives, together with the process-wide numpy random generator they   *)
(* share.                                                                  *)
(***************************************************************************)
EXTENDS Integers, Sequences, FiniteSets

VARIABLES objs, gens, rng

vars == <<objs, gens, rng>>

---------------------------------------------------------------------------
(* Bounds of the multi-invocation specification Spec. *)
MaxObjs == 1
MaxGens == 2
MaxSplits == 2
MaxSamples == 3
MaxSeed == 1
(* Bounds of the single-invocation specification SpecOne. *)
OneMaxSplits == 5
OneMaxSamples == 5
OneMaxSeed == 119
(* Number of distinct entropy-seeded generator states a process may start in. *)
MaxEntropy == 1

---------------------------------------------------------------------------
(* Python values: a type tag and an integer payload. *)
PyInt(i) == [t |-> "int", v |-> i]
PyBool(b) == [t |-> "bool", v |-> IF b THEN 1 ELSE 0]
PyStr(i) == [t |-> "str", v |-> i]
PyFloat(i) == [t |-> "float", v |-> i]
None == [t |-> "NoneType", v |-> 0]
Unset == [t |-> "unset", v |-> 0]

(* isinstance(x, numbers.Integral): int and its subclass bool. *)
IsIntegral(x) == x.t \in {"int", "bool"}
(* isinstance(x, bool) *)
IsBool(x) == x.t = "bool"
(* truth value of a bool *)
Truth(x) == x.v # 0

---------------------------------------------------------------------------
(* KFold.__init__ *)
Raised(n_splits, shuffle, random_state) ==
    [args |-> <<n_splits, shuffle, random_state>>, exc |-> "ValueError",
     n_splits |-> Unset, shuffle |-> Unset, random_state |-> Unset]

Stored(n_splits, shuffle, random_state) ==
    [args |-> <<n_splits, shuffle, random_state>>, exc |-> "none",
     n_splits |-> n_splits, shuffle |-> shuffle, random_state |-> random_state]

KFold_init_unchecked_state(n_splits, shuffle, random_state) ==
    IF ~IsIntegral(n_splits) THEN Raised(n_splits, shuffle, random_state)
    ELSE IF n_splits.v <= 1 THEN Raised(n_splits, shuffle, random_state)
    ELSE IF ~IsBool(shuffle) THEN Raised(n_splits, shuffle, random_state)
    ELSE IF ~IsIntegral(random_state) THEN Raised(n_splits, shuffle, random_state)
    ELSE Stored(n_splits, shuffle, random_state)

KFold_init(n_splits, shuffle, random_state) ==
    IF ~IsIntegral(n_splits) THEN Raised(n_splits, shuffle, random_state)
    ELSE IF n_splits.v <= 1 THEN Raised(n_splits, shuffle, random_state)
    ELSE IF ~IsBool(shuffle) THEN Raised(n_splits, shuffle, random_state)
    ELSE IF ~IsIntegral(random_state) THEN Raised(n_splits, shuffle, random_state)
    ELSE IF ~Truth(shuffle) /\ random_state # None
         THEN Raised(n_splits, shuffle, random_state)
    ELSE Stored(n_splits, shuffle, random_state)

---------------------------------------------------------------------------
(* numpy helpers *)
RECURSIVE Factorial(_)
Factorial(n) == IF n <= 1 THEN 1 ELSE n * Factorial(n - 1)

(* np.arange(n): <<0, ..., n-1>> *)
np_arange(n) == [i \in 1..n |-> i - 1]

RemoveAt(s, i) == [j \in 1..(Len(s) - 1) |-> IF j < i THEN s[j] ELSE s[j + 1]]

(* The r-th arrangement of items, in lexicographic order (r = 0: unchanged). *)
RECURSIVE Unrank(_, _)
Unrank(r, items) ==
    IF items = << >> THEN << >>
    ELSE LET f == Factorial(Len(items) - 1)
             i == (r \div f) + 1
         IN  <<items[i]>> \o Unrank(r % f, RemoveAt(items, i))

(* np.random.seed(seed): the generator state an integer seed determines. *)
np_random_seed_ignored(seed) == rng

np_random_seed(seed) == (7 * seed.v + 3) % 720

(* np.random.permutation(n) drawn in generator state st, and the state after. *)
np_random_permutation(st, n) == Unrank(st % Factorial(n), np_arange(n))

np_random_advance(st) == (5 * st + 1) % 720

(* The states np.random.seed(None) and process start-up draw from the OS. *)
EntropyStates == 0..MaxEntropy

(* num_of_samples(X): the number of rows of the dataset. *)
num_of_samples(X) == Len(X)

---------------------------------------------------------------------------
(* KFold.__iter_test_indices *)

(* fold_sizes = np.full(n_splits, n // n_splits); fold_sizes[:n % n_splits] += 1 *)
FoldSizesNoExcess(n_samples, n_splits) ==
    [i \in 1..n_splits |-> n_samples \div n_splits]

FoldSizesExcessLast(n_samples, n_splits) ==
    [i \in 1..n_splits |->
        (n_samples \div n_splits)
        + (IF i > n_splits - (n_samples % n_splits) THEN 1 ELSE 0)]

FoldSizes(n_samples, n_splits) ==
    [i \in 1..n_splits |->
        (n_samples \div n_splits) + (IF i - 1 < n_samples % n_splits THEN 1 ELSE 0)]

(* mask = np.zeros(n_samples, dtype=bool); mask[indices[start:stop]] = True *)
FoldMask(n_samples, indices, start, stop) ==
    [j \in 1..n_samples |-> \E p \in (start + 1)..stop : indices[p] = j - 1]

(* current = stop *)
NextCurrentStuck(current, fold_size) == current

NextCurrent(current, fold_size) == current + fold_size

---------------------------------------------------------------------------
(* KFold.split *)

(* arr[mask]: the elements of arr at the positions where mask is True. *)
BoolIndex(arr, mask) ==
    LET F[i \in 0..Len(arr)] ==
            IF i = 0 THEN << >>
            ELSE IF mask[i] THEN Append(F[i - 1], arr[i]) ELSE F[i - 1]
    IN  F[Len(arr)]

np_logical_not(mask) == [i \in 1..Len(mask) |-> ~mask[i]]

(* the (train_indices, test_indices) pair split yields for one mask *)
SplitPairNoNegation(n_samples, mask) ==
    [train |-> BoolIndex(np_arange(n_samples), mask),
     test |-> BoolIndex(np_arange(n_samples), mask)]

SplitPair(n_samples, mask) ==
    [train |-> BoolIndex(np_arange(n_samples), np_logical_not(mask)),
     test |-> BoolIndex(np_arange(n_samples), mask)]

(* self.n_splits > n_samples *)
TooFewSamplesNever(n_splits, n_samples) == FALSE

TooFewSamples(n_splits, n_samples) == n_splits > n_samples

(* The generator object a call of split returns: no line of the body has run. *)
NewGenerator(o, X) ==
    [self |-> o, n_samples |-> num_of_samples(X), pc |-> "created", exc |-> "none",
     indices |-> << >>, fold_sizes |-> << >>, fold |-> 0, current |-> 0,
     yielded |-> << >>]

---------------------------------------------------------------------------
Init ==
    /\ objs = << >>
    /\ gens = << >>
    /\ rng \in EntropyStates

(* KFold(n_splits, shuffle, random_state) *)
DoConstruct(n_splits, shuffle, random_state) ==
    /\ objs' = Append(objs, KFold_init(n_splits, shuffle, random_state))
    /\ UNCHANGED <<gens, rng>>

(* objs[o].split(X): returns a generator object *)
DoSplit(o, X) ==
    /\ objs[o].exc = "none"
    /\ gens' = Append(gens, NewGenerator(o, X))
    /\ UNCHANGED <<objs, rng>>

(* next(gens[g]) on a generator not yet started: lines 94-106 up to the first
   yield, entering __iter_test_indices (lines 122-137). *)
Start(g) ==
    LET gen == gens[g]
        kf == objs[gen.self]
        n == gen.n_samples
        k == kf.n_splits.v
    IN  /\ gen.pc = "created"
        /\ IF TooFewSamples(k, n)
           THEN /\ gens' = [gens EXCEPT ![g].pc = "closed", ![g].exc = "ValueError"]
                /\ rng' = rng
           ELSE \E st \in (IF ~Truth(kf.shuffle) THEN {rng}
                           ELSE IF kf.random_state = None THEN EntropyStates
                           ELSE {np_random_seed(kf.random_state)}) :
                  LET perm == IF Truth(kf.shuffle) THEN np_random_permutation(st, n)
                              ELSE np_arange(n)
                      sizes == FoldSizes(n, k)
                      mask == FoldMask(n, perm, 0, sizes[1])
                  IN  /\ gens' = [gens EXCEPT ![g] =
                            [gen EXCEPT !.pc = "suspended", !.indices = perm,
                                        !.fold_sizes = sizes, !.fold = 1,
                                        !.current = 0,
                                        !.yielded = <<SplitPair(n, mask)>>]]
                      /\ rng' = IF Truth(kf.shuffle) THEN np_random_advance(st) ELSE rng
        /\ UNCHANGED objs

(* next(gens[g]) on a generator suspended at the yield: lines 138, 133-137 and
   104-106, or the end of both loops. *)
Resume(g) ==
    LET gen == gens[g]
        n == gen.n_samples
        cur == NextCurrent(gen.current, gen.fold_sizes[gen.fold])
    IN  /\ gen.pc = "suspended"
        /\ IF gen.fold < Len(gen.fold_sizes)
           THEN LET mask == FoldMask(n, gen.indices, cur,
                                     cur + gen.fold_sizes[gen.fold + 1])
                IN  gens' = [gens EXCEPT ![g] =
                        [gen EXCEPT !.current = cur, !.fold = gen.fold + 1,
                                    !.yielded = Append(gen.yielded, SplitPair(n, mask))]]
           ELSE gens' = [gens EXCEPT ![g] =
                        [gen EXCEPT !.current = cur, !.pc = "closed",
                                    !.exc = "StopIteration"]]
        /\ UNCHANGED <<objs, rng>>

(* next(gens[g]) on a finished generator raises StopIteration and changes nothing. *)
Exhausted(g) ==
    /\ gens[g].pc = "closed"
    /\ UNCHANGED vars

(* next(gens[g]) *)
Advance(g) == Start(g) \/ Resume(g) \/ Exhausted(g)

---------------------------------------------------------------------------
(* Spec: several partitioners and several generators consumed in any
   interleaving by one thread. *)
(* Datasets of at least two rows, the least fold count the constructor
   accepts; smaller ones are explored under SpecOne. *)
Datasets == {np_arange(n) : n \in 2..MaxSamples}

Construct ==
    /\ Len(objs) < MaxObjs
    /\ \E k \in 2..MaxSplits, s \in 0..MaxSeed : DoConstruct(PyInt(k), PyBool(TRUE), PyInt(s))

Split ==
    /\ Len(gens) < MaxGens
    /\ \E o \in DOMAIN objs, X \in Datasets : DoSplit(o, X)

Consume == \E g \in DOMAIN gens : Advance(g)

Next == Construct \/ Split \/ Consume

Spec == Init /\ [][Next]_vars

(* SpecOne: one constructor call with arguments of any type, one split call on
   its result, consumed to the end. *)
OneNSplits == {PyInt(k) : k \in 0..OneMaxSplits} \cup {PyBool(TRUE), PyStr(5), PyFloat(3), None}
OneShuffle == {PyBool(TRUE), PyBool(FALSE), PyStr(1), PyInt(1), None}
OneRandomState == {PyInt(s) : s \in 0..OneMaxSeed} \cup {None, PyStr(2), PyFloat(1)}
OneDatasets == {np_arange(n) : n \in 0..OneMaxSamples}

ConstructOne ==
    /\ objs = << >>
    /\ \E n_splits \in OneNSplits, shuffle \in OneShuffle, random_state \in OneRandomState :
          DoConstruct(n_splits, shuffle, random_state)

SplitOne ==
    /\ gens = << >>
    /\ \E o \in DOMAIN objs, X \in OneDatasets : DoSplit(o, X)

NextOne == ConstructOne \/ SplitOne \/ Consume

SpecOne == Init /\ [][NextOne]_vars

---------------------------------------------------------------------------
(* Helpers of the properties. *)
Range(s) == {s[i] : i \in DOMAIN s}

StrictlyAscending(s) == \A p \in 1..(Len(s) - 1) : s[p] < s[p + 1]

RECURSIVE SumTo(_, _)
SumTo(s, i) == IF i = 0 THEN 0 ELSE s[i] + SumTo(s, i - 1)

(* the partitioner a generator belongs to, its fold count and sample count *)
KfOf(g) == objs[gens[g].self]
SplitsOf(g) == KfOf(g).n_splits.v
SamplesOf(g) == gens[g].n_samples

(* the generator ran to the end of its sequence *)
Completed(g) == gens[g].pc = "closed" /\ gens[g].exc = "StopIteration"

Shuffled(g) == gens[g].indices # << >> /\ gens[g].indices # np_arange(SamplesOf(g))

(* the size the claims give fold i (counted from 0) of n samples in k folds *)
ExpectedSize(n, k, i) == (n \div k) + (IF i < n % k THEN 1 ELSE 0)

(* the values of the drawn order in the chunk of fold i (counted from 1) *)
FoldChunk(g, i) ==
    LET s == SumTo([f \in 1..i |-> ExpectedSize(SamplesOf(g), SplitsOf(g), f - 1)], i - 1)
    IN  {gens[g].indices[p] :
            p \in (s + 1)..(s + ExpectedSize(SamplesOf(g), SplitsOf(g), i - 1))}

---------------------------------------------------------------------------
(* C1: across the pairs of one completed split invocation every index of
   [0, n) is a test index of exactly one pair, at one position, and a train
   index of exactly n_splits - 1 pairs. *)
PartitionProperty ==
    \A g \in DOMAIN gens :
        Completed(g) =>
            \A j \in 0..(SamplesOf(g) - 1) :
                /\ Cardinality({pos \in {<<i, p>> : i \in 1..Len(gens[g].yielded),
                                                   p \in 1..SamplesOf(g)} :
                                   /\ pos[2] <= Len(gens[g].yielded[pos[1]].test)
                                   /\ gens[g].yielded[pos[1]].test[pos[2]] = j}) = 1
                /\ Cardinality({i \in 1..Len(gens[g].yielded) :
                                   j \in Range(gens[g].yielded[i].train)})
                      = SplitsOf(g) - 1

PartitionWitness ==
    \E g \in DOMAIN gens :
        /\ Completed(g)
        /\ Shuffled(g)
        /\ SamplesOf(g) % SplitsOf(g) # 0
        /\ SamplesOf(g) >= 5

(* C2: in every pair yielded, test_indices and train_indices are strictly
   ascending, disjoint, and train_indices is arange(n) with the test indices
   removed. *)
PairComplement ==
    \A g \in DOMAIN gens :
        \A i \in 1..Len(gens[g].yielded) :
            LET pair == gens[g].yielded[i]
                all == 0..(SamplesOf(g) - 1)
            IN  /\ StrictlyAscending(pair.test)
                /\ StrictlyAscending(pair.train)
                /\ Range(pair.test) \cap Range(pair.train) = {}
                /\ Range(pair.test) \cup Range(pair.train) = all
                /\ pair.train = SelectSeq(np_arange(SamplesOf(g)),
                                          LAMBDA x : x \notin Range(pair.test))

PairComplementWitness ==
    \E g \in DOMAIN gens :
        /\ Shuffled(g)
        /\ \E i \in 1..Len(gens[g].yielded) :
              LET pair == gens[g].yielded[i]
              IN  /\ Len(pair.test) >= 2
                  /\ Len(pair.train) >= 2
                  /\ \E p \in 1..(Len(pair.test) - 1) : pair.test[p + 1] # pair.test[p] + 1

(* C3: the test set of fold i has n div k + 1 elements when i < n mod k and
   n div k otherwise; over a completed invocation the sizes sum to n. *)
FoldSizing ==
    \A g \in DOMAIN gens :
        /\ \A i \in 1..Len(gens[g].yielded) :
              Len(gens[g].yielded[i].test)
                 = ExpectedSize(SamplesOf(g), SplitsOf(g), i - 1)
        /\ Completed(g) =>
              SumTo([i \in 1..Len(gens[g].yielded) |-> Len(gens[g].yielded[i].test)],
                    Len(gens[g].yielded)) = SamplesOf(g)

FoldSizingWitness ==
    \E g \in DOMAIN gens :
        /\ Completed(g)
        /\ Shuffled(g)
        /\ SamplesOf(g) % SplitsOf(g) >= 1
        /\ SamplesOf(g) % SplitsOf(g) < SplitsOf(g) - 1

(* C4: a constructor call with an integer n_splits >= 2, a boolean shuffle and
   no seed (random_state None) succeeds and stores the three fields. *)
AbsentSeedAccepted ==
    \A o \in DOMAIN objs :
        LET a == objs[o].args
        IN  (a[1].t = "int" /\ a[1].v >= 2 /\ IsBool(a[2]) /\ a[3] = None) =>
                /\ objs[o].exc = "none"
                /\ <<objs[o].n_splits, objs[o].shuffle, objs[o].random_state>> = a

(* the configurations the constructor is to reject *)
InvalidConfiguration(a) ==
    \/ ~IsIntegral(a[1])
    \/ a[1].v < 2
    \/ ~IsBool(a[2])
    \/ (a[3] # None /\ ~IsIntegral(a[3]))
    \/ (a[3] # None /\ a[2] = PyBool(FALSE))

(* C5: a constructor call fails with ValueError, storing no field, whenever
   n_splits is not an integer or is below 2, shuffle is not a boolean, the seed
   is present but not an integer, or the seed is present while shuffle is
   False. *)
ConstructionRejects ==
    \A o \in DOMAIN objs :
        /\ InvalidConfiguration(objs[o].args) => objs[o].exc = "ValueError"
        /\ objs[o].exc = "ValueError" =>
              /\ objs[o].n_splits = Unset
              /\ objs[o].shuffle = Unset
              /\ objs[o].random_state = Unset
              /\ \A g \in DOMAIN gens : gens[g].self # o

ConstructionRejectsWitness ==
    \E o \in DOMAIN objs :
        /\ objs[o].args = <<PyInt(3), PyBool(FALSE), PyInt(3)>>
        /\ objs[o].exc = "ValueError"

(* C6: a split on fewer samples than folds yields no pair and ends in
   ValueError once it is advanced, before __iter_test_indices is entered, and
   the step that raises leaves the shared random generator as it was. *)
TooFewSamplesFails ==
    /\ [](\A g \in DOMAIN gens :
            SplitsOf(g) > SamplesOf(g) =>
                /\ gens[g].yielded = << >>
                /\ gens[g].indices = << >>
                /\ gens[g].pc \in {"created", "closed"}
                /\ gens[g].pc = "closed" => gens[g].exc = "ValueError")
    /\ [][\A g \in DOMAIN gens :
            (SplitsOf(g) > SamplesOf(g) /\ gens'[g] # gens[g]) => rng' = rng]_vars

TooFewSamplesWitness ==
    \E g \in DOMAIN gens :
        /\ SplitsOf(g) > SamplesOf(g)
        /\ SamplesOf(g) = 0
        /\ KfOf(g).shuffle = PyBool(TRUE)
        /\ gens[g].pc = "closed"
        /\ gens[g].exc = "ValueError"

(* C7: when n_splits exceeds the sample count the call split(X) itself raises,
   so no generator object is ever handed back unstarted for such a dataset. *)
SplitValidatesEagerly ==
    \A g \in DOMAIN gens :
        SplitsOf(g) > SamplesOf(g) => gens[g].pc # "created"

(* C9: with shuffle False the partitioner exists and the test set of fold i is
   the contiguous range starting at the sum of the earlier fold sizes. *)
ContiguousChunks ==
    \A o \in DOMAIN objs :
        LET a == objs[o].args
        IN  (a[1].t = "int" /\ a[1].v >= 2 /\ a[2] = PyBool(FALSE) /\ a[3] = None) =>
                /\ objs[o].exc = "none"
                /\ \A g \in DOMAIN gens :
                      gens[g].self = o =>
                          \A i \in 1..Len(gens[g].yielded) :
                              LET sizes == [f \in 1..i |->
                                              ExpectedSize(SamplesOf(g), a[1].v, f - 1)]
                                  s == SumTo(sizes, i - 1)
                              IN  gens[g].yielded[i].test
                                     = [p \in 1..sizes[i] |-> s + p - 1]

(* C8: a split invocation on at least n_splits samples yields the pair of fold
   0, then of fold 1, and so on, n_splits pairs in all, then is exhausted and
   stays as it is; every invocation starts from fold 0 whatever the other
   invocations of the partitioner have done. *)
FoldOrder ==
    /\ [](\A g \in DOMAIN gens :
            SplitsOf(g) <= SamplesOf(g) =>
                /\ Len(gens[g].yielded) <= SplitsOf(g)
                /\ gens[g].pc = "created" => gens[g].yielded = << >>
                /\ gens[g].pc = "suspended" => Len(gens[g].yielded) >= 1
                /\ gens[g].pc = "closed" =>
                      Completed(g) /\ Len(gens[g].yielded) = SplitsOf(g)
                /\ \A i \in 1..Len(gens[g].yielded) :
                      Range(gens[g].yielded[i].test) = FoldChunk(g, i))
    /\ [][\A g \in DOMAIN gens :
            /\ gens[g].pc = "closed" => gens'[g] = gens[g]
            /\ gens'[g] # gens[g] =>
                  \/ gens'[g].yielded = gens[g].yielded /\ gens'[g].pc = "closed"
                  \/ /\ Len(gens'[g].yielded) = Len(gens[g].yielded) + 1
                     /\ SubSeq(gens'[g].yielded, 1, Len(gens[g].yielded))
                           = gens[g].yielded]_vars

FoldOrderWitness ==
    \E g1, g2 \in DOMAIN gens :
        /\ gens[g1].self = gens[g2].self
        /\ Completed(g1)
        /\ SamplesOf(g1) % SplitsOf(g1) # 0
        /\ gens[g2].pc = "suspended"
        /\ Len(gens[g2].yielded) = 1

(* C10: two split invocations on the same partitioner with the same sample
   count yield the same pairs, position by position, whatever was drawn from
   the shared random generator before or between them. *)
Reproducible ==
    \A g1, g2 \in DOMAIN gens :
        (gens[g1].self = gens[g2].self /\ SamplesOf(g1) = SamplesOf(g2)) =>
            /\ \A i \in 1..Len(gens[g1].yielded) :
                  i <= Len(gens[g2].yielded) =>
                      gens[g1].yielded[i] = gens[g2].yielded[i]
            /\ (Completed(g1) /\ Completed(g2)) =>
                  gens[g1].yielded = gens[g2].yielded

ReproducibleWitness ==
    \E g1, g2 \in DOMAIN gens :
        /\ g1 # g2
        /\ gens[g1].self = gens[g2].self
        /\ SamplesOf(g1) = SamplesOf(g2)
        /\ Completed(g1)
        /\ Completed(g2)
        /\ Shuffled(g1)
        /\ KfOf(g1).random_state.t = "int"

====
